---- MODULE Spec2Model ----
(***************************************************************************)
(* A model of simpleMQTT.py: Sender, Receiver, TalkerToBroker and the      *)
(* activate function, for a session of computers that talk through one    *)
(* MQTT broker.  Each computer has ONE foreground thread (the caller of    *)
(* activate and of Sender.send_message) and ONE background thread (the     *)
(* network loop started by mqtt_client.loop_start) that runs the           *)
(* callbacks _on_connect, _on_subscribe and _on_message.                   *)
(*                                                                         *)
(* Strings are sequences of one-character strings, text payloads are       *)
(* sequences of code points and wire payloads are sequences of bytes, so   *)
(* that formatting, splitting, int() and encode()/decode() are computed.   *)
(***************************************************************************)
EXTENDS Integers, Sequences, FiniteSets

\* ------------------------------------------------------------------ bounds

\* How many send_message calls are made in a run, over all computers.
MaxSends == 2

\* How many events a publisher outside the session injects in a run.
MaxForeign == 1

\* The most parameters that a controller's act_on_message_received has.
MaxParams == 3

\* ------------------------------------------------------- program constants

\* Sender.__init__: number_of_computers=2.
NumComputers == 2

\* Receiver._talker_to_broker / Sender._talker_to_broker before activate.
None == 0

\* _on_connect: rc == 0 is success.
RcSuccess == 0

\* subscribe: qos will be 0 for all topics.
Qos == 0

\* Sender.__init__ and Receiver.__init__: verbosity=3.
DefaultVerbosity == 3

\* verify_controller: assert len(sig.parameters) == 2.
RequiredParams == 2

\* The ids of the computers: Sender.who_am_i, "a positive integer".
Ids == 1..NumComputers

\* The unique_id argument of activate.
unique_id == <<"s">>

\* ----------------------------------------------------------- topic strings

DigitChars == <<"0", "1", "2", "3", "4", "5", "6", "7", "8", "9">>

\* str(k) for an int k >= 0, as "{}".format(k) renders it.
RECURSIVE IntToStr(_)
IntToStr(k) ==
    IF k < 10 THEN <<DigitChars[k + 1]>>
    ELSE IntToStr(k \div 10) \o <<DigitChars[(k % 10) + 1]>>

\* The topic built with "/" between prefix and number.
FormatWithSlash(prefix, k) == prefix \o <<"/">> \o IntToStr(k)

\* "{}-{}".format(prefix, k)
Format(prefix, k) == prefix \o <<"-">> \o IntToStr(k)

\* prefix = unique_id + "/computer"
Prefix(uid) == uid \o <<"/", "c", "o", "m", "p", "u", "t", "e", "r">>

\* self.publisher_topic = "{}-{}".format(prefix, self.sender.who_am_i)
PublisherTopic(uid, who) == Format(Prefix(uid), who)

\* The loop over range(1, number_of_computers + 1) that appends the topic of
\* every k != who_am_i, in increasing k.
RECURSIVE SubscriberTopicsUpTo(_, _, _)
SubscriberTopicsUpTo(uid, who, n) ==
    IF n = 0 THEN <<>>
    ELSE SubscriberTopicsUpTo(uid, who, n - 1)
         \o (IF n # who THEN <<Format(Prefix(uid), n)>> ELSE <<>>)

\* The loop without its test k != who_am_i: the own topic is subscribed too.
RECURSIVE SubscriberTopicsWithSelf(_, _, _)
SubscriberTopicsWithSelf(uid, who, count) ==
    IF count = 0 THEN <<>>
    ELSE SubscriberTopicsWithSelf(uid, who, count - 1)
         \o <<Format(Prefix(uid), count)>>

\* The loop over range(1, number_of_computers): the last computer is left out.
SubscriberTopicsButLast(uid, who, count) ==
    SubscriberTopicsUpTo(uid, who, count - 1)

\* self.subscriber_topics, lines 243-246.
SubscriberTopics(uid, who, count) == SubscriberTopicsUpTo(uid, who, count)

\* split("-")[0] in place of split("-")[-1]: what precedes the first "-".
RECURSIVE FirstField(_)
FirstField(s) ==
    IF s = <<>> THEN <<>>
    ELSE IF s[1] = "-" THEN <<>>
    ELSE <<s[1]>> \o FirstField(Tail(s))

\* msg.topic.split("-")[-1]: what follows the last "-" (all of it if none).
RECURSIVE LastField(_)
LastField(s) ==
    IF s = <<>> THEN <<>>
    ELSE IF s[Len(s)] = "-" THEN <<>>
    ELSE LastField(SubSeq(s, 1, Len(s) - 1)) \o <<s[Len(s)]>>

DigitValue(c) == CHOOSE d \in 0..9 : DigitChars[d + 1] = c

IsDigit(c) == \E d \in 0..9 : DigitChars[d + 1] = c

\* s.strip() for the blank
RECURSIVE Strip(_)
Strip(s) ==
    IF s = <<>> THEN s
    ELSE IF s[1] = " " THEN Strip(Tail(s))
    ELSE IF s[Len(s)] = " " THEN Strip(SubSeq(s, 1, Len(s) - 1))
    ELSE s

\* The digits of an int literal: non-empty, digits with single underscores
\* only between digits.
DigitsOk(s) ==
    /\ s # <<>>
    /\ \A p \in 1..Len(s) :
          \/ IsDigit(s[p])
          \/ /\ s[p] = "_"
             /\ p > 1 /\ p < Len(s)
             /\ IsDigit(s[p - 1]) /\ IsDigit(s[p + 1])

RECURSIVE DigitsValue(_)
DigitsValue(s) ==
    IF s = <<>> THEN 0
    ELSE IF s[Len(s)] = "_" THEN DigitsValue(SubSeq(s, 1, Len(s) - 1))
    ELSE 10 * DigitsValue(SubSeq(s, 1, Len(s) - 1)) + DigitValue(s[Len(s)])

\* int(s): blanks stripped, an optional sign, then digits; ValueError otherwise.
ParseInt(s) ==
    LET t == Strip(s)
        signed == t # <<>> /\ t[1] \in {"+", "-"}
        body == IF signed THEN Tail(t) ELSE t
    IN  IF DigitsOk(body)
        THEN [ok |-> TRUE,
              val |-> IF signed /\ t[1] = "-" THEN 0 - DigitsValue(body)
                      ELSE DigitsValue(body)]
        ELSE [ok |-> FALSE, val |-> 0]

\* sender_id = int(msg.topic.split("-")[-1])
ParseSenderId(topic) == ParseInt(LastField(topic))

\* ------------------------------------------------------------ payload text

\* str.encode(): UTF-8 of a text of code points below 2048.
RECURSIVE Encode(_)
Encode(text) ==
    IF text = <<>> THEN <<>>
    ELSE (IF text[1] < 128 THEN <<text[1]>>
          ELSE <<192 + (text[1] \div 64), 128 + (text[1] % 64)>>)
         \o Encode(Tail(text))

IsContinuation(b) == b >= 128 /\ b <= 191

\* Whether bytes.decode() accepts the bytes (strict UTF-8, one- and two-byte
\* forms; a lead byte of 192, 193 or of 245 and more is never valid).
RECURSIVE Decodable(_)
Decodable(bytes) ==
    IF bytes = <<>> THEN TRUE
    ELSE IF bytes[1] < 128 THEN Decodable(Tail(bytes))
    ELSE IF bytes[1] >= 194 /\ bytes[1] <= 223
         THEN /\ Len(bytes) >= 2
              /\ IsContinuation(bytes[2])
              /\ Decodable(SubSeq(bytes, 3, Len(bytes)))
    ELSE FALSE

\* msg.payload.decode() of bytes that are Decodable.
RECURSIVE Decode(_)
Decode(bytes) ==
    IF bytes = <<>> THEN <<>>
    ELSE IF bytes[1] < 128 THEN <<bytes[1]>> \o Decode(Tail(bytes))
    ELSE <<(bytes[1] - 192) * 64 + (bytes[2] - 128)>>
         \o Decode(SubSeq(bytes, 3, Len(bytes)))

\* A value handed to send_message: its type, and the code points of
\* str(value).
Str(text) == [type |-> "str", text |-> text]

\* The texts the programs send: "hi" and "e-acute".
Messages == {Str(<<104, 105>>), Str(<<233>>)}

\* Values that are no strings: the int 7, whose str() is "7" (code point 55),
\* and the empty list, whose str() is "[]".
NonStrings == {[type |-> "int", text |-> <<55>>],
               [type |-> "list", text |-> <<91, 93>>]}

\* mqtt_client.publish(topic, message): the transport sends the UTF-8 bytes
\* of a str, and the bytes of str(message) of a number.
Payload(message) == Encode(message.text)

\* TalkerToBroker.print_message with every verbosity printing the message.
PrintMessageAlways(verbosity, sender_id) ==
    IF verbosity = 2
    THEN (IF sender_id # 0 THEN "Received from: message" ELSE "Sent by: message")
    ELSE "message"

\* TalkerToBroker.print_message, lines 341-378: the line it prints for a
\* message, "" when it prints nothing.  sender_id is None (or 0) when a
\* Sender prints.
PrintMessage(verbosity, sender_id) ==
    IF verbosity = 0 THEN ""
    ELSE IF verbosity = 2
         THEN (IF sender_id # 0 THEN "Received from: message"
               ELSE "Sent by: message")
    ELSE IF verbosity = 3
         THEN (IF sender_id # 0 THEN "Received by from: message"
               ELSE "Sent by to all: message")
    ELSE IF verbosity >= 4
         THEN (IF sender_id # 0 THEN "Received by from:\n  -- message"
               ELSE "Sent by to all:\n  -- message")
    ELSE "message"

\* What print(...) adds to a console.
Printed(line) == IF line = "" THEN <<>> ELSE <<line>>

\* TalkerToBroker.send_message, lines 266-267: the warning for a message
\* that is not a string.
NotAStringWarning(message) ==
    IF message.type = "str" THEN <<>> ELSE <<"not_a_string">>

\* Payloads published by a client outside the session on a topic of the
\* session: bytes that are no UTF-8 text.
ForeignPayloads == {<<255>>}

\* ------------------------------------------------------------------- state

VARIABLES
    pc,                \* where each computer's foreground thread is
    receiver,          \* the receiver argument of activate: "Receiver" or "None"
    sender_talker,     \* Sender._talker_to_broker (None, or the TalkerToBroker)
    receiver_talker,   \* Receiver._talker_to_broker
    has_two_way_connection_with_broker,
    publisher_topic,   \* TalkerToBroker.publisher_topic (<<>> before __init__)
    subscriber_topics, \* TalkerToBroker.subscriber_topics
    conn,              \* the transport's connection with the broker
    loop_alive,        \* the background network-loop thread is running
    subscribe_request, \* the topic_tuples given to mqtt_client.subscribe
    subscriptions,     \* the topics the broker forwards to each client
    inbox,             \* inbound events the loop has not handled yet, in order
    handled,           \* the calls of controller.act_on_message_received
    published,         \* the calls of mqtt_client.publish
    send_calls,        \* how many Sender.send_message calls were made
    not_activated,     \* how many "has NOT been activated" diagnostics
    tracebacks,        \* how many traceback.print_exc() in _on_message
    escaped,           \* how many exceptions left _on_message
    foreign,           \* how many events came from outside the session
    who_am_i,          \* Sender.who_am_i
    number_of_computers, \* Sender.number_of_computers
    session_id,        \* the unique_id argument of activate
    controller,        \* the controller given to Receiver(controller)
    sender_verbosity,  \* Sender.verbosity
    receiver_verbosity, \* Receiver.verbosity
    console,           \* what the foreground thread printed, published and raised, in order
    received_printed,  \* how many deliveries Receiver.print_message printed
    game,              \* m1_pygame_example: the zombie, its handler, the game loop
    broker,            \* the Broker each program gives to activate
    connect_request    \* the arguments of mqtt_client.connect

vars == <<pc, receiver, sender_talker, receiver_talker,
          has_two_way_connection_with_broker, publisher_topic,
          subscriber_topics, conn, loop_alive, subscribe_request,
          subscriptions, inbox, handled, published, send_calls,
          not_activated, tracebacks, escaped, foreign, who_am_i,
          number_of_computers, session_id, controller, sender_verbosity,
          receiver_verbosity, console, received_printed, game, broker,
          connect_request>>

\* What the program chose when it constructed its objects and called activate,
\* and the objects of the program's own; no step of the library writes these.
settings == <<who_am_i, number_of_computers, session_id, controller,
              sender_verbosity, receiver_verbosity, game, broker>>

\* A TalkerToBroker is named by the computer that constructed it: activate is
\* called once on each computer.
Talker(i) == i

\* The controllers a program may hand to Receiver(controller): without an
\* act_on_message_received attribute, with one that is not callable, or with
\* a method of so many parameters (self not counted: inspect.signature of
\* the bound method).
Controllers ==
    {[attr |-> "missing", params |-> 0], [attr |-> "not_callable", params |-> 0]}
    \cup {[attr |-> "method", params |-> n] : n \in 0..MaxParams}

\* def act_on_message_received(self, message, sender_id)
ConformingController == [attr |-> "method", params |-> RequiredParams]

\* verify_controller that accepts a method of two parameters or more.
VerifyControllerAtLeast(c) ==
    IF c.attr = "missing" THEN "AttributeError"
    ELSE IF c.attr = "not_callable" THEN "AssertionError"
    ELSE IF c.params < RequiredParams THEN "AssertionError"
    ELSE "ok"

\* Receiver.verify_controller, lines 115-119: getattr raises AttributeError,
\* the two asserts raise AssertionError.
VerifyController(c) ==
    IF c.attr = "missing" THEN "AttributeError"
    ELSE IF c.attr = "not_callable" THEN "AssertionError"
    ELSE IF c.params # RequiredParams THEN "AssertionError"
    ELSE "ok"

\* Broker(): hostname="broker.hivemq.com", tcp_port=1883,
\* web_socket_port=8000.
DefaultBroker ==
    [hostname |-> "broker.hivemq.com", tcp_port |-> 1883,
     web_socket_port |-> 8000]

\* No call of mqtt_client.connect yet.
NoConnect == [host |-> "", port |-> 0, keepalive |-> 0]

\* m1_pygame_example, main: the zombie starts in the middle of the screen of
\* 400 by 300.
ZombieStart == <<200, 150>>

\* m1_pygame_example before the first message: the zombie at its start, no
\* handler running, the game loop between two draws, nothing drawn yet.
GameStart ==
    [x |-> ZombieStart[1], y |-> ZombieStart[2],
     handler |-> "idle", message |-> <<>>,
     loop |-> "idle", seen_x |-> 0, drawn |-> <<>>,
     carried |-> {}, moves |-> 0]

\* Nothing constructed but the Senders: no TalkerToBroker, no connection,
\* nothing sent, received or printed.
Idle ==
    /\ sender_talker = [i \in Ids |-> None]
    /\ receiver_talker = [i \in Ids |-> None]
    /\ has_two_way_connection_with_broker = [i \in Ids |-> FALSE]
    /\ publisher_topic = [i \in Ids |-> <<>>]
    /\ subscriber_topics = [i \in Ids |-> <<>>]
    /\ conn = [i \in Ids |-> "idle"]
    /\ loop_alive = [i \in Ids |-> FALSE]
    /\ subscribe_request = [i \in Ids |-> <<>>]
    /\ subscriptions = [i \in Ids |-> {}]
    /\ inbox = [i \in Ids |-> <<>>]
    /\ handled = [i \in Ids |-> <<>>]
    /\ published = [i \in Ids |-> <<>>]
    /\ send_calls = [i \in Ids |-> 0]
    /\ not_activated = [i \in Ids |-> 0]
    /\ tracebacks = [i \in Ids |-> 0]
    /\ escaped = [i \in Ids |-> 0]
    /\ foreign = 0
    /\ console = [i \in Ids |-> <<>>]
    /\ received_printed = [i \in Ids |-> 0]
    /\ game = GameStart
    /\ connect_request = [i \in Ids |-> NoConnect]

\* A program that builds a Receiver starts at its construction; a program
\* that calls activate without one (receiver=None) has nothing to build.
StartsAt(r) == IF r = "Receiver" THEN "new" ELSE "start"

\* The main programs: computer i constructs Sender(i), with the default
\* number_of_computers and verbosity, and calls activate with the same
\* unique_id as the other and no Broker, which makes it Broker().
SessionSettings ==
    /\ broker = [i \in Ids |-> DefaultBroker]
    /\ who_am_i = [i \in Ids |-> i]
    /\ number_of_computers = [i \in Ids |-> NumComputers]
    /\ session_id = [i \in Ids |-> unique_id]
    /\ sender_verbosity = [i \in Ids |-> DefaultVerbosity]
    /\ receiver_verbosity = [i \in Ids |-> DefaultVerbosity]

\* Each program builds a Receiver around some controller, or calls activate
\* without a Receiver.
Init ==
    /\ Idle
    /\ SessionSettings
    /\ receiver \in [Ids -> {"Receiver", "None"}]
    /\ controller \in [Ids -> Controllers]
    /\ \A i \in Ids : receiver[i] = "None" => controller[i] = ConformingController
    /\ pc = [i \in Ids |-> StartsAt(receiver[i])]

\* ---------------------------------------------- foreground: Receiver(...)

\* Receiver.__init__: verify_controller returns, or prints its diagnostic and
\* re-raises, and the constructor raises with it.
NewReceiver(i) ==
    /\ pc[i] = "new"
    /\ IF VerifyController(controller[i]) = "ok"
       THEN /\ pc' = [pc EXCEPT ![i] = "start"]
            /\ UNCHANGED console
       ELSE /\ pc' = [pc EXCEPT ![i] = "config_error"]
            /\ console' = [console EXCEPT ![i] = Append(@, "bad_controller")]
    /\ UNCHANGED <<receiver, sender_talker, receiver_talker,
                   has_two_way_connection_with_broker, publisher_topic,
                   subscriber_topics, conn, loop_alive, subscribe_request,
                   subscriptions, inbox, handled, published, send_calls,
                   not_activated, tracebacks, escaped, foreign, settings,
                   received_printed, connect_request>>

\* ------------------------------------------------------ foreground: activate

\* _try_to_connect, lines 279-280: mqtt_client.connect(hostname, tcp_port,
\* web_socket_port).  The third parameter of connect is keepalive.
ConnectArguments(b) ==
    [host |-> b.hostname, port |-> b.tcp_port, keepalive |-> b.web_socket_port]

\* activate, line 41: TalkerToBroker.__init__ up to the wait.  It computes the
\* topics, clears the ready flag, connects and starts the background loop.
TalkerInit(i) ==
    /\ pc[i] = "start"
    /\ publisher_topic' =
          [publisher_topic EXCEPT
              ![i] = PublisherTopic(session_id[i], who_am_i[i])]
    /\ subscriber_topics' =
          [subscriber_topics EXCEPT
              ![i] = SubscriberTopics(session_id[i], who_am_i[i],
                                      number_of_computers[i])]
    /\ has_two_way_connection_with_broker' =
          [has_two_way_connection_with_broker EXCEPT ![i] = FALSE]
    /\ connect_request' =
          [connect_request EXCEPT ![i] = ConnectArguments(broker[i])]
    /\ conn' = [conn EXCEPT ![i] = "connecting"]
    /\ loop_alive' = [loop_alive EXCEPT ![i] = TRUE]
    /\ pc' = [pc EXCEPT ![i] = "check"]
    /\ UNCHANGED <<receiver, sender_talker, receiver_talker, subscribe_request,
                   subscriptions, inbox, handled, published, send_calls,
                   not_activated, tracebacks, escaped, foreign>>
    /\ UNCHANGED <<settings, console, received_printed>>

\* The wait with the test dropped: it breaks at its first turn.
WaitBreaksAtOnce(i) == TRUE

\* The wait that is over as soon as the broker has answered the connect.
WaitUntilConnected(i) == conn[i] \notin {"idle", "connecting"}

\* The wait that is over as soon as _on_connect has asked to subscribe.
WaitUntilSubscribeSent(i) == subscribe_request[i] # <<>>

\* The loop without its break.
WaitWithoutBreak(i) == FALSE

\* _wait_for_two_way_connection_with_broker: the test that breaks the loop.
WaitIsOver(i) == has_two_way_connection_with_broker[i]

\* One test of the flag: break (and return from __init__ into activate) or
\* go to sleep.
WaitCheck(i) ==
    /\ pc[i] = "check"
    /\ pc' = [pc EXCEPT ![i] = IF WaitIsOver(i) THEN "line42" ELSE "sleep"]
    /\ UNCHANGED <<receiver, sender_talker, receiver_talker,
                   has_two_way_connection_with_broker, publisher_topic,
                   subscriber_topics, conn, loop_alive, subscribe_request,
                   subscriptions, inbox, handled, published, send_calls,
                   not_activated, tracebacks, escaped, foreign>>
    /\ UNCHANGED <<connect_request, settings, console, received_printed>>

\* time.sleep(0.01), then the loop tests again.
WaitSleep(i) ==
    /\ pc[i] = "sleep"
    /\ pc' = [pc EXCEPT ![i] = "check"]
    /\ UNCHANGED <<receiver, sender_talker, receiver_talker,
                   has_two_way_connection_with_broker, publisher_topic,
                   subscriber_topics, conn, loop_alive, subscribe_request,
                   subscriptions, inbox, handled, published, send_calls,
                   not_activated, tracebacks, escaped, foreign>>
    /\ UNCHANGED <<connect_request, settings, console, received_printed>>

\* activate, line 42: sender._talker_to_broker = talker_to_broker
ActivateSender(i) ==
    /\ pc[i] = "line42"
    /\ sender_talker' = [sender_talker EXCEPT ![i] = Talker(i)]
    /\ pc' = [pc EXCEPT ![i] = "line43"]
    /\ UNCHANGED <<receiver, receiver_talker,
                   has_two_way_connection_with_broker, publisher_topic,
                   subscriber_topics, conn, loop_alive, subscribe_request,
                   subscriptions, inbox, handled, published, send_calls,
                   not_activated, tracebacks, escaped, foreign>>
    /\ UNCHANGED <<connect_request, settings, console, received_printed>>

\* What line 43 stores in the Receiver it was given.
ReceiverTalkerAfterLine43(i) == Talker(i)

\* activate, line 43: receiver._talker_to_broker = talker_to_broker.  With
\* receiver None the assignment raises AttributeError and activate raises.
ActivateReceiver(i) ==
    /\ pc[i] = "line43"
    /\ IF receiver[i] = "None"
       THEN /\ pc' = [pc EXCEPT ![i] = "raised"]
            /\ UNCHANGED receiver_talker
       ELSE /\ receiver_talker' =
                  [receiver_talker EXCEPT ![i] = ReceiverTalkerAfterLine43(i)]
            /\ pc' = [pc EXCEPT ![i] = "done"]
    /\ UNCHANGED <<receiver, sender_talker,
                   has_two_way_connection_with_broker, publisher_topic,
                   subscriber_topics, conn, loop_alive, subscribe_request,
                   subscriptions, inbox, handled, published, send_calls,
                   not_activated, tracebacks, escaped, foreign>>
    /\ UNCHANGED <<connect_request, settings, console, received_printed>>

\* ------------------------------------------------- foreground: send_message

\* The levels of a topic: s.split("/").
RECURSIVE Levels(_)
Levels(s) ==
    IF \A p \in 1..Len(s) : s[p] # "/" THEN <<s>>
    ELSE LET p == CHOOSE q \in 1..Len(s) :
                      s[q] = "/" /\ \A r \in 1..(q - 1) : s[r] # "/"
         IN  <<SubSeq(s, 1, p - 1)>> \o Levels(SubSeq(s, p + 1, Len(s)))

\* Whether the broker matches a topic against a subscription: level by
\* level, a level "+" of the subscription matching any one level.
Matches(filter, topic) ==
    LET f == Levels(filter)
        t == Levels(topic)
    IN  /\ Len(f) = Len(t)
        /\ \A p \in 1..Len(f) : f[p] = <<"+">> \/ f[p] = t[p]

\* The topic holds a wildcard.
HasWildcard(topic) == \E p \in 1..Len(topic) : topic[p] \in {"+", "#"}

\* A publish that takes strings only: TypeError for every other value.
PublishErrorUnlessStr(topic, message) ==
    IF HasWildcard(topic) THEN "ValueError"
    ELSE IF message.type # "str" THEN "TypeError"
    ELSE ""

\* mqtt_client.publish(topic, message), line 268: it raises ValueError for a
\* topic that holds a wildcard, TypeError for a payload that is neither a
\* string nor a number; "" when it raises nothing.
PublishError(topic, message) ==
    IF HasWildcard(topic) THEN "ValueError"
    ELSE IF message.type \notin {"str", "int"} THEN "TypeError"
    ELSE ""

\* The broker forwards a publish on a topic to every client with a
\* subscription that matches it.
Route(topic, payload) ==
    [j \in Ids |->
        IF \E filter \in subscriptions[j] : Matches(filter, topic)
        THEN Append(inbox[j], [topic |-> topic, payload |-> payload])
        ELSE inbox[j]]

\* Sender.send_message, line 170: if self._talker_to_broker
IsActivated(i) == sender_talker[i] # None

\* A publish on a topic made anew from the Sender's who_am_i.
PublishTopicRecomputed(t) == PublisherTopic(session_id[t], who_am_i[t])

\* TalkerToBroker.send_message, line 268: the topic it publishes on.
PublishTopicOf(t) == publisher_topic[t]

\* Whether the broker gets a publish: it does while the connection stands;
\* a QoS 0 publish made while the connection is down may be lost.
PublishOutcomes(i) ==
    IF conn[i] \in {"subscribing", "subscribed"} THEN {TRUE} ELSE BOOLEAN

\* send_message that hands the message to the TalkerToBroker first and prints
\* it afterwards.
SendLogPublishFirst(verbosity, message, outcome) ==
    NotAStringWarning(message) \o <<outcome>>
        \o Printed(PrintMessage(verbosity, None))

\* Sender.send_message, lines 171-172, with TalkerToBroker.send_message: the
\* message is printed at the Sender's verbosity, then the warning for a
\* message that is no string, then mqtt_client.publish (or its ValueError).
SendLog(verbosity, message, outcome) ==
    Printed(PrintMessage(verbosity, None)) \o NotAStringWarning(message)
        \o <<outcome>>

\* A send that calls publish a second time when the first call raised
\* nothing (a retry).
PublishCallsWithRetry(topic, message, error) ==
    LET call == [topic |-> topic, message |-> message, error |-> error]
    IN  IF error = "" THEN <<call, call>> ELSE <<call>>

\* TalkerToBroker.send_message, line 268: the calls of mqtt_client.publish
\* that one send_message makes, one, with the topic and the message as given.
PublishCallsOf(topic, message, error) ==
    <<[topic |-> topic, message |-> message, error |-> error]>>

\* The send_message calls made so far on the computers 1..n.
RECURSIVE SendCallsUpTo(_)
SendCallsUpTo(n) == IF n = 0 THEN 0 ELSE SendCallsUpTo(n - 1) + send_calls[n]

\* The else branch that drops the message and says nothing.
SendDroppedSilently(i) == UNCHANGED <<not_activated, published, inbox, console>>

\* Sender.send_message, lines 173-176: the "has NOT been activated"
\* diagnostic is printed, no message is sent.
SendNotActivated(i) ==
    /\ not_activated' = [not_activated EXCEPT ![i] = @ + 1]
    /\ console' = [console EXCEPT ![i] = Append(@, "not_activated")]
    /\ UNCHANGED <<published, inbox>>

\* Sender.send_message(message), called by the program before or after
\* activate.  Activated: line 171 prints the message at the Sender's
\* verbosity, then TalkerToBroker.send_message warns if the message is no
\* string and calls publish with the publisher topic and the message;
\* an exception of publish leaves send_message.  Not activated: the
\* diagnostic, and nothing else.
SenderSendMessage(i, message) ==
    /\ SendCallsUpTo(NumComputers) < MaxSends
    /\ send_calls' = [send_calls EXCEPT ![i] = @ + 1]
    /\ IF ~IsActivated(i)
       THEN SendNotActivated(i)
       ELSE LET topic == PublishTopicOf(sender_talker[i])
                error == PublishError(topic, message)
            IN  /\ published' =
                      [published EXCEPT
                          ![i] = @ \o PublishCallsOf(topic, message, error)]
                /\ \E forwarded \in PublishOutcomes(i) :
                      inbox' = IF error = "" /\ forwarded
                               THEN Route(topic, Payload(message))
                               ELSE inbox
                /\ console' =
                      [console EXCEPT
                          ![i] = @ \o SendLog(sender_verbosity[i], message,
                                              IF error = "" THEN "publish"
                                              ELSE error)]
                /\ UNCHANGED not_activated
    /\ UNCHANGED <<pc, receiver, sender_talker, receiver_talker,
                   has_two_way_connection_with_broker, publisher_topic,
                   subscriber_topics, conn, loop_alive, subscribe_request,
                   subscriptions, handled, tracebacks, escaped, foreign>>
    /\ UNCHANGED <<connect_request, settings, received_printed>>

\* The main program calls send_message before it calls activate or after
\* activate has returned or raised.
send_message(i, message) ==
    /\ pc[i] \in {"start", "done", "raised"}
    /\ SenderSendMessage(i, message)

\* A handler or another thread of the program calls send_message once the
\* main program has called activate: while activate runs or after it.
send_from_thread(i, message) ==
    /\ pc[i] \in {"check", "sleep", "line42", "line43", "done", "raised"}
    /\ SenderSendMessage(i, message)

\* ------------------------------------------------- background: the callbacks

\* The return codes of the broker's answer to connect: accepted, or refused
\* (5: not authorised).
ReturnCodes == {RcSuccess, 5}

\* The subscribe request for the first subscriber topic only.
TopicTuplesFirstOnly(topics) == <<<<topics[1], Qos>>>>

\* _on_connect, lines 306-308: a (topic, 0) tuple for each subscriber topic.
TopicTuples(topics) == [k \in 1..Len(topics) |-> <<topics[k], Qos>>]

\* _on_connect that starts the handshake over: the flag is cleared until the
\* next acknowledgement.
FlagResetOnConnect(i) == FALSE

\* _on_connect leaves has_two_way_connection_with_broker as it is.
FlagAfterConnect(i) == has_two_way_connection_with_broker[i]

\* _on_connect whose else branch prints and does not exit.
ReachesSubscribeAlways(rc) == TRUE

\* _on_connect, lines 297-302: whether the callback gets to the subscribe of
\* lines 306-309; for rc != 0 exit() ends it before.
ReachesSubscribe(rc) == rc = RcSuccess

\* _on_connect(rc).  rc == 0: the subscribe request goes out.  Otherwise:
\* the diagnostic and exit(), which raises SystemExit in the thread that runs
\* the callback, the background loop; that thread ends, the foreground thread
\* is not touched.
on_connect(i, rc) ==
    /\ loop_alive[i]
    /\ conn[i] = "connecting"
    /\ conn' = [conn EXCEPT ![i] = IF rc = RcSuccess THEN "subscribing"
                                    ELSE "refused"]
    /\ IF ReachesSubscribe(rc)
       THEN /\ subscribe_request' =
                  [subscribe_request EXCEPT
                      ![i] = TopicTuples(subscriber_topics[i])]
            /\ UNCHANGED loop_alive
       ELSE /\ loop_alive' = [loop_alive EXCEPT ![i] = FALSE]
            /\ UNCHANGED subscribe_request
    /\ has_two_way_connection_with_broker' =
          [has_two_way_connection_with_broker EXCEPT
              ![i] = FlagAfterConnect(i)]
    /\ UNCHANGED <<pc, receiver, sender_talker, receiver_talker,
                   publisher_topic,
                   subscriber_topics, subscriptions, inbox, handled,
                   published, send_calls, not_activated, tracebacks, escaped,
                   foreign>>
    /\ UNCHANGED <<connect_request, settings, console, received_printed>>

\* The broker grants the subscribe request and acknowledges it; the loop runs
\* _on_subscribe, which sets the ready flag.
on_subscribe(i) ==
    /\ loop_alive[i]
    /\ conn[i] = "subscribing"
    /\ subscriptions' =
          [subscriptions EXCEPT
              ![i] = {subscribe_request[i][k][1] :
                         k \in 1..Len(subscribe_request[i])}]
    /\ conn' = [conn EXCEPT ![i] = "subscribed"]
    /\ has_two_way_connection_with_broker' =
          [has_two_way_connection_with_broker EXCEPT ![i] = TRUE]
    /\ UNCHANGED <<pc, receiver, sender_talker, receiver_talker,
                   publisher_topic, subscriber_topics, loop_alive,
                   subscribe_request, inbox, handled, published, send_calls,
                   not_activated, tracebacks, escaped, foreign>>
    /\ UNCHANGED <<connect_request, settings, console, received_printed>>

\* _on_message, lines 327-328, which are outside the try: decode() of the
\* payload and int() of the topic's last field raise out of the callback.
RaisesBeforeTry(ev) ==
    \/ ~Decodable(ev.payload)
    \/ ~ParseSenderId(ev.topic).ok

\* message_received that calls the handler whether or not print_message
\* finds a TalkerToBroker.
HandlerIsCalledUnactivated(i, ev) ==
    /\ ~RaisesBeforeTry(ev)
    /\ receiver[i] # "None"

\* Receiver.message_received is reached, and its print_message finds a
\* TalkerToBroker, so that line 91 calls controller.act_on_message_received.
\* With receiver None, or with Receiver._talker_to_broker still None, line 337
\* or line 111 raises AttributeError instead.
HandlerIsCalled(i, ev) ==
    /\ ~RaisesBeforeTry(ev)
    /\ receiver[i] # "None"
    /\ receiver_talker[i] # None

\* _on_message without its try/except: the handler's exception leaves the
\* callback.
AfterTryWithoutExcept(raised) == IF raised THEN "escaped" ELSE "returned"

\* _on_message, lines 336-339: what becomes of the try block.
AfterTry(raised) == IF raised THEN "caught" ELSE "returned"

\* How _on_message ends for an event, if the handler raises or not.
Outcome(i, ev, raises) ==
    IF RaisesBeforeTry(ev) THEN "escaped"
    ELSE AfterTry(~HandlerIsCalled(i, ev) \/ raises)

\* The loop hands the next inbound event to _on_message.  The controller's
\* handler returns or raises an Exception.  When an exception leaves the
\* callback, paho 1.5.0 silences it and the loop goes on, later versions
\* re-raise it and the loop thread ends (the comment at lines 330-331).
on_message(i) ==
    /\ loop_alive[i]
    /\ inbox[i] # <<>>
    /\ LET ev == Head(inbox[i])
           called == HandlerIsCalled(i, ev)
       IN  \E raises \in (IF called THEN BOOLEAN ELSE {FALSE}) :
             LET out == Outcome(i, ev, raises)
             IN  /\ inbox' = [inbox EXCEPT ![i] = Tail(@)]
                 /\ handled' =
                       IF called
                       THEN [handled EXCEPT
                               ![i] = Append(@,
                                   [message |-> Decode(ev.payload),
                                    sender_id |-> ParseSenderId(ev.topic).val,
                                    raised |-> raises])]
                       ELSE handled
                 /\ received_printed' =
                       IF called /\ PrintMessage(receiver_verbosity[i],
                                        ParseSenderId(ev.topic).val) # ""
                       THEN [received_printed EXCEPT ![i] = @ + 1]
                       ELSE received_printed
                 /\ tracebacks' =
                       IF out = "caught"
                       THEN [tracebacks EXCEPT ![i] = @ + 1]
                       ELSE tracebacks
                 /\ escaped' =
                       IF out = "escaped"
                       THEN [escaped EXCEPT ![i] = @ + 1]
                       ELSE escaped
                 /\ \E survives \in (IF out = "escaped" THEN BOOLEAN
                                     ELSE {TRUE}) :
                       loop_alive' = [loop_alive EXCEPT ![i] = survives]
    /\ UNCHANGED <<pc, receiver, sender_talker, receiver_talker,
                   has_two_way_connection_with_broker, publisher_topic,
                   subscriber_topics, conn, subscribe_request, subscriptions,
                   published, send_calls, not_activated, foreign>>
    /\ UNCHANGED <<connect_request, settings, console>>

\* The connection to the broker drops.  The subscriptions of the session go
\* with it; the loop thread reconnects, and the broker's answer runs
\* _on_connect again.
connection_lost(i) ==
    /\ loop_alive[i]
    /\ conn[i] \in {"subscribing", "subscribed"}
    /\ conn' = [conn EXCEPT ![i] = "connecting"]
    /\ subscriptions' = [subscriptions EXCEPT ![i] = {}]
    /\ subscribe_request' = [subscribe_request EXCEPT ![i] = <<>>]
    /\ UNCHANGED <<pc, receiver, sender_talker, receiver_talker,
                   has_two_way_connection_with_broker, publisher_topic,
                   subscriber_topics, loop_alive, inbox, handled, published,
                   send_calls, not_activated, tracebacks, escaped, foreign>>
    /\ UNCHANGED <<connect_request, settings, console, received_printed>>

\* ------------------------------------------------ outside the session

\* A client that is no computer of the session publishes bytes on a topic of
\* the session (the broker is shared and public).
foreign_publish(topic, payload) ==
    /\ foreign < MaxForeign
    /\ \E j \in Ids : topic \in subscriptions[j]
    /\ foreign' = foreign + 1
    /\ inbox' = Route(topic, payload)
    /\ UNCHANGED <<pc, receiver, sender_talker, receiver_talker,
                   has_two_way_connection_with_broker, publisher_topic,
                   subscriber_topics, conn, loop_alive, subscribe_request,
                   subscriptions, handled, published, send_calls,
                   not_activated, tracebacks, escaped>>
    /\ UNCHANGED <<connect_request, settings, console, received_printed>>

\* The attributes of the Sender of computer i are those it was constructed
\* with.
AsConstructed(i) ==
    /\ who_am_i[i] = i
    /\ number_of_computers[i] = NumComputers
    /\ sender_verbosity[i] = DefaultVerbosity

\* The transport hands _on_message a message whose topic is none the
\* computer asked for.
stray_message(i, topic, payload) ==
    /\ foreign < MaxForeign
    /\ loop_alive[i]
    /\ conn[i] = "subscribed"
    /\ foreign' = foreign + 1
    /\ inbox' = [inbox EXCEPT
                    ![i] = Append(@, [topic |-> topic, payload |-> payload])]
    /\ UNCHANGED <<pc, receiver, sender_talker, receiver_talker,
                   has_two_way_connection_with_broker, publisher_topic,
                   subscriber_topics, conn, loop_alive, subscribe_request,
                   subscriptions, handled, published, send_calls,
                   not_activated, tracebacks, escaped>>
    /\ UNCHANGED <<connect_request, settings, console, received_printed>>

\* The program assigns to an attribute of its Sender after activate, once:
\* sender.who_am_i, sender.number_of_computers or sender.verbosity.  Nothing
\* of the library runs.
reassign(i, attribute, value) ==
    /\ pc[i] \in {"done", "raised"}
    /\ AsConstructed(i)
    /\ who_am_i' = IF attribute = "who_am_i"
                   THEN [who_am_i EXCEPT ![i] = value] ELSE who_am_i
    /\ number_of_computers' =
          IF attribute = "number_of_computers"
          THEN [number_of_computers EXCEPT ![i] = value]
          ELSE number_of_computers
    /\ sender_verbosity' =
          IF attribute = "verbosity"
          THEN [sender_verbosity EXCEPT ![i] = value] ELSE sender_verbosity
    /\ <<who_am_i, number_of_computers, sender_verbosity>>'
          # <<who_am_i, number_of_computers, sender_verbosity>>
    /\ UNCHANGED <<pc, receiver, sender_talker, receiver_talker,
                   has_two_way_connection_with_broker, publisher_topic,
                   subscriber_topics, conn, loop_alive, subscribe_request,
                   subscriptions, inbox, handled, published, send_calls,
                   not_activated, tracebacks, escaped, foreign>>
    /\ UNCHANGED <<session_id, controller, receiver_verbosity, console,
                   received_printed, game, broker, connect_request>>

\* ------------------------------------------- m1_pygame_example: the zombie

\* The number of messages the zombie's handler is called for.
MaxMoves == 3

\* The variables of the library and of the programs' settings: no step of
\* the game's objects writes these.
library == <<pc, receiver, sender_talker, receiver_talker,
             has_two_way_connection_with_broker, publisher_topic,
             subscriber_topics, conn, loop_alive, subscribe_request,
             subscriptions, inbox, handled, published, send_calls,
             not_activated, tracebacks, escaped, foreign, who_am_i,
             number_of_computers, session_id, controller, sender_verbosity,
             receiver_verbosity, console, received_printed, broker,
             connect_request>>

\* The positions the other computer sends, as float(message.split()[0]) and
\* float(message.split()[1]) read them from messages such as "100 38".
GameMessages == {<<100, 38>>, <<102, 40>>}

\* The handler that takes both coordinates from message.split()[0].
FirstFieldTwice(message) == <<message[1], message[1]>>

\* Controller.act_on_message_received, lines 64-65: the x and y it passes to
\* move_to.
ParsePosition(message) == <<message[1], message[2]>>

\* The loop thread calls Controller.act_on_message_received(message, _): it
\* parses x and y and enters zombie.move_to, which assigns self.x = x.
act_on_message_received(message) ==
    /\ game.handler = "idle"
    /\ game.moves < MaxMoves
    /\ game' = [game EXCEPT !.handler = "move_to",
                            !.message = ParsePosition(message),
                            !.x = ParsePosition(message)[1],
                            !.carried = @ \cup {message},
                            !.moves = @ + 1]
    /\ UNCHANGED library

\* Player.move_to, line 117: self.y = y, and the handler returns.
move_to_y ==
    /\ game.handler = "move_to"
    /\ game' = [game EXCEPT !.handler = "idle", !.y = game.message[2]]
    /\ UNCHANGED library

\* The game loop calls zombie.draw(): building the tuple (self.x, self.y)
\* it reads self.x first.
draw_read_x ==
    /\ game.loop = "idle"
    /\ game' = [game EXCEPT !.loop = "draw", !.seen_x = game.x]
    /\ UNCHANGED library

\* Player.draw reads self.y and draws the circle at the tuple.
draw_read_y ==
    /\ game.loop = "draw"
    /\ game' = [game EXCEPT !.loop = "idle", !.drawn = <<game.seen_x, game.y>>]
    /\ UNCHANGED library

\* ------------------------------------------------------- specifications

\* The steps of the computers of the session.
SessionNext ==
    \E i \in Ids :
        \/ NewReceiver(i)
        \/ TalkerInit(i)
        \/ WaitCheck(i)
        \/ WaitSleep(i)
        \/ ActivateSender(i)
        \/ ActivateReceiver(i)
        \/ \E message \in Messages : send_message(i, message)
        \/ \E rc \in ReturnCodes : on_connect(i, rc)
        \/ on_subscribe(i)
        \/ on_message(i)

ForeignNext ==
    \E i \in Ids, payload \in ForeignPayloads :
        foreign_publish(PublisherTopic(unique_id, i), payload)

Next == SessionNext \/ ForeignNext

\* The session on a broker that other clients publish to as well.
Spec == Init /\ [][Next]_vars

\* The computers of the session, each with a Receiver around a conforming
\* controller.
PairInit ==
    /\ Idle
    /\ SessionSettings
    /\ receiver = [i \in Ids |-> "Receiver"]
    /\ controller = [i \in Ids |-> ConformingController]
    /\ pc = [i \in Ids |-> StartsAt(receiver[i])]

GameNext ==
    \/ \E message \in GameMessages : act_on_message_received(message)
    \/ move_to_y
    \/ draw_read_x
    \/ draw_read_y

\* m1_pygame_example on one computer: the loop thread runs the handler, the
\* foreground thread runs the game loop, and nothing orders the two.
GameSpec == PairInit /\ [][GameNext]_vars

\* The session alone on its topics.
SessionSpec == Init /\ [][SessionNext]_vars

LossNext == \E i \in Ids : connection_lost(i)

\* The session on a connection that may drop and be made again.
ReconnectSpec == Init /\ [][SessionNext \/ LossNext]_vars

\* ------------------------------------------------------------ the claims

\* The loop of computer i hands an inbound event to _on_message in this step.
Consumes(i) == Len(inbox'[i]) = Len(inbox[i]) - 1

\* Computer i calls its controller's handler in this step.
CallsHandler(i) == Len(handled'[i]) = Len(handled[i]) + 1

LastOf(s) == s[Len(s)]

\* C1: when the controller's handler raises, the exception is caught in
\* _on_message (it does not leave the callback, the traceback is printed, the
\* loop thread stays alive), and a well-formed event that the loop handles
\* after a handler failure is dispatched to the handler all the same.
C1_HandlerFailureIsolated ==
    [][\A i \in Ids :
          /\ (CallsHandler(i) /\ LastOf(handled'[i]).raised)
                => /\ escaped'[i] = escaped[i]
                   /\ tracebacks'[i] = tracebacks[i] + 1
                   /\ loop_alive'[i]
          /\ ( /\ \E k \in 1..Len(handled[i]) : handled[i][k].raised
               /\ Consumes(i)
               /\ ~RaisesBeforeTry(Head(inbox[i])) )
                => /\ CallsHandler(i)
                   /\ LastOf(handled'[i]).message
                         = Decode(Head(inbox[i]).payload)
                   /\ LastOf(handled'[i]).sender_id
                         = ParseSenderId(Head(inbox[i]).topic).val
      ]_vars

\* C1's case: the handler raised on a first message and was called again for
\* a second one, by a loop that is still running.
C1_Witness ==
    \E i \in Ids :
        /\ Len(handled[i]) = 2
        /\ handled[i][1].raised
        /\ loop_alive[i]
        /\ escaped[i] = 0

\* C2, as claimed: no exception ever leaves _on_message, and the loop of a
\* connected computer is never ended by an inbound event.
C2_MalformedEventNeverEscapes ==
    \A i \in Ids :
        /\ escaped[i] = 0
        /\ conn[i] = "subscribed" => loop_alive[i]

\* C3, as claimed, in a session where every activate was given a Receiver:
\* once the ready flag is set, every well-formed inbound event that the loop
\* handles makes exactly one call of the handler, with the payload's text and
\* the topic's sender id.
C3_EveryEventReachesHandler ==
    [][\A i \in Ids :
          ( /\ has_two_way_connection_with_broker[i]
            /\ \A j \in Ids : receiver[j] = "Receiver"
            /\ Consumes(i)
            /\ ~RaisesBeforeTry(Head(inbox[i])) )
             => /\ CallsHandler(i)
                /\ LastOf(handled'[i]).message = Decode(Head(inbox[i]).payload)
                /\ LastOf(handled'[i]).sender_id
                      = ParseSenderId(Head(inbox[i]).topic).val
      ]_vars

\* C4, as claimed: once _on_connect has handled a refused connect (diagnostic
\* and exit()), the process is over: its foreground is not in the polling
\* wait of activate any more.
C4_RefusedConnectEndsProcess ==
    \A i \in Ids : conn[i] = "refused" => pc[i] \notin {"check", "sleep"}

\* C5: a send_message call on a Sender whose _talker_to_broker is None prints
\* the "not activated" diagnostic once, publishes nothing, leaves the Sender
\* unactivated and returns to the caller where it was.
C5_SendBeforeActivateIsSafe ==
    [][\A i \in Ids :
          (send_calls'[i] = send_calls[i] + 1 /\ sender_talker[i] = None)
             => /\ not_activated'[i] = not_activated[i] + 1
                /\ published' = published
                /\ inbox' = inbox
                /\ sender_talker'[i] = None
                /\ pc'[i] = pc[i]
      ]_vars

\* C5's case: two calls before activate, two diagnostics, nothing published.
C5_Witness ==
    \E i \in Ids :
        /\ pc[i] = "start"
        /\ send_calls[i] = 2
        /\ not_activated[i] = 2
        /\ published[i] = <<>>

\* C6, as claimed: activate called without a Receiver, once past its last
\* line, has returned (it has not raised) and has activated the Sender.
C6_ActivateWithoutReceiverReturns ==
    \A i \in Ids :
        (receiver[i] = "None" /\ pc[i] \in {"done", "raised"})
           => (pc[i] = "done" /\ sender_talker[i] # None)

\* Every computer has completed activate.
AllActivated == \A i \in Ids : pc[i] = "done"

\* The event that carries the text m published by computer i.
EventOf(i, m) == [topic |-> PublisherTopic(unique_id, i), payload |-> Payload(m)]

\* How many times computer i has published the text m.
TimesPublished(i, m) ==
    Cardinality({p \in 1..Len(published[i]) : published[i][p].message = m})

\* How many times the handler of computer j was called with (m, i).
TimesHandled(j, m, i) ==
    Cardinality({k \in 1..Len(handled[j]) :
                    handled[j][k].message = m.text /\ handled[j][k].sender_id = i})

\* How many events that carry (m, i) wait in the inbox of computer j.
TimesPending(j, m, i) ==
    Cardinality({k \in 1..Len(inbox[j]) : inbox[j][k] = EventOf(i, m)})

\* C7: in a session alone on its topics, (1) a handler only ever receives
\* pairs (m, k) that another computer k has sent, and never more copies than
\* k sent; and once every computer has completed activate, (2) a send of m by
\* i puts exactly one event into the inbox of every other computer and none
\* into its own, and (3) the loop of j, handling the event of (m, i), calls
\* the handler exactly once, with (m, i).
C7_EndToEndDelivery ==
    /\ [](\A j \in Ids : \A k \in 1..Len(handled[j]) :
             /\ handled[j][k].sender_id \in Ids \ {j}
             /\ TimesPublished(handled[j][k].sender_id,
                              Str(handled[j][k].message))
                   >= 1)
    /\ [](\A i \in Ids, j \in Ids, m \in Messages :
             i # j => TimesHandled(j, m, i) + TimesPending(j, m, i)
                         <= TimesPublished(i, m))
    /\ [][\A i \in Ids, m \in Messages :
             ( /\ AllActivated
               /\ send_calls'[i] = send_calls[i] + 1
               /\ TimesPublished(i, m)' = TimesPublished(i, m) + 1 )
                => \A j \in Ids :
                      inbox'[j] = IF j = i THEN inbox[j]
                                  ELSE Append(inbox[j], EventOf(i, m))
         ]_vars
    /\ [][\A j \in Ids :
             (AllActivated /\ Consumes(j))
                => \E i \in Ids \ {j}, m \in Messages :
                      /\ Head(inbox[j]) = EventOf(i, m)
                      /\ CallsHandler(j)
                      /\ LastOf(handled'[j]).message = m.text
                      /\ LastOf(handled'[j]).sender_id = i
         ]_vars

\* C7's case: both computers completed activate, 1 sent "hi" and the text
\* with the two-byte character, and the handler of 2 got each once, from 1.
C7_Witness ==
    /\ AllActivated
    /\ Len(published[1]) = 2
    /\ published[1][1].message # published[1][2].message
    /\ inbox[2] = <<>>
    /\ Len(handled[2]) = 2
    /\ \A m \in Messages : TimesHandled(2, m, 1) = 1
    /\ handled[1] = <<>>

\* The elements of a sequence.
Range(s) == {s[k] : k \in 1..Len(s)}

\* C8: a computer never subscribes to its own publish topic, so that no event
\* on that topic is ever in its inbox and its handler is never called with
\* its own id as the sender, whatever was sent.
C8_NoSelfDelivery ==
    \A i \in Ids :
        /\ publisher_topic[i] # <<>>
              => /\ publisher_topic[i] \notin Range(subscriber_topics[i])
                 /\ publisher_topic[i] \notin subscriptions[i]
        /\ \A k \in 1..Len(inbox[i]) :
              inbox[i][k].topic # PublisherTopic(unique_id, i)
        /\ \A k \in 1..Len(handled[i]) : handled[i][k].sender_id # i

\* C8's case: computer i has published twice, the other computer's handler
\* got both, and nothing came back to i.
C8_Witness ==
    \E i \in Ids, j \in Ids :
        /\ i # j
        /\ Len(published[i]) = 2
        /\ Len(handled[j]) = 2
        /\ \A k \in 1..2 : handled[j][k].sender_id = i
        /\ inbox[i] = <<>>
        /\ handled[i] = <<>>

\* C9: when activate has returned normally, the ready flag is set, the
\* connect was accepted and the subscribe acknowledged, and the Sender and
\* the Receiver hold the same TalkerToBroker.
C9_ActivateReturnsReady ==
    \A i \in Ids :
        pc[i] = "done"
           => /\ has_two_way_connection_with_broker[i]
              /\ conn[i] = "subscribed"
              /\ sender_talker[i] # None
              /\ receiver_talker[i] = sender_talker[i]

\* C9's case: an activate that has returned.
C9_Witness ==
    \E i \in Ids : pc[i] = "done" /\ receiver_talker[i] = Talker(i)

\* C10: as long as the ready flag is not set, the foreground stays in the
\* polling wait: no step takes it out (no return, no raise, no timeout).
C10_NoHandshakeTimeout ==
    [][\A i \in Ids :
          (pc[i] \in {"check", "sleep"}
             /\ ~has_two_way_connection_with_broker[i])
             => pc'[i] \in {"check", "sleep"}
      ]_vars

\* C10's case: the subscribe request is out and not acknowledged, and the
\* foreground has tested the flag and gone to sleep.
C10_Witness ==
    \E i \in Ids :
        /\ pc[i] = "sleep"
        /\ conn[i] = "subscribing"
        /\ ~has_two_way_connection_with_broker[i]

\* The controller has a callable act_on_message_received that takes exactly
\* two arguments, message and sender_id, besides self.
Conforms(c) == c.attr = "method" /\ c.params = 2

\* C11: the construction of a Receiver raises, after the diagnostic, exactly
\* when the controller does not conform; it raises in the constructor, before
\* any TalkerToBroker is made and any connection is attempted.
C11_HandlerValidationGate ==
    \A i \in Ids :
        /\ (receiver[i] = "Receiver" /\ pc[i] # "new")
              => (pc[i] = "config_error" <=> ~Conforms(controller[i]))
        /\ pc[i] = "config_error"
              => /\ console[i] = <<"bad_controller">>
                 /\ conn[i] = "idle"
                 /\ ~loop_alive[i]
                 /\ publisher_topic[i] = <<>>

\* C11's case: one Receiver was refused for a method of three parameters,
\* the other was built around a conforming controller and went on to connect.
C11_Witness ==
    \E i \in Ids, j \in Ids :
        /\ pc[i] = "config_error"
        /\ controller[i] = [attr |-> "method", params |-> 3]
        /\ receiver[j] = "Receiver"
        /\ conn[j] = "connecting"

\* ------------------------------------------------------ C12: verbosity

\* Sender(who_am_i, verbosity=...) and Receiver(controller, verbosity=...):
\* the verbosities the programs choose from, 0 for silence.
Verbosities == {0, DefaultVerbosity}

\* Two computers with a Receiver each around a conforming controller, each
\* Sender and Receiver at a verbosity of its own.
VerbosityInit ==
    /\ Idle
    /\ broker = [i \in Ids |-> DefaultBroker]
    /\ who_am_i = [i \in Ids |-> i]
    /\ number_of_computers = [i \in Ids |-> NumComputers]
    /\ session_id = [i \in Ids |-> unique_id]
    /\ sender_verbosity \in [Ids -> Verbosities]
    /\ receiver_verbosity \in [Ids -> Verbosities]
    /\ receiver = [i \in Ids |-> "Receiver"]
    /\ controller = [i \in Ids |-> ConformingController]
    /\ pc = [i \in Ids |-> StartsAt(receiver[i])]

\* The programs also send values that are no strings.
NonStringNext ==
    \E i \in Ids, message \in NonStrings : send_message(i, message)

\* The session of Senders and Receivers of any verbosity, sending strings
\* and other values.
VerbositySpec == VerbosityInit /\ [][SessionNext \/ NonStringNext]_vars

\* The marks of a call of mqtt_client.publish: made, or the error it raised.
PublishCalls == {"publish", "ValueError", "TypeError"}

\* The console of computer i shows only lines of the given set.
ConsoleWithin(i, lines) ==
    \A k \in 1..Len(console[i]) : console[i][k] \in lines

\* C12 as stated: at verbosity 0 a send_message call prints nothing, whatever
\* the state of the Sender and the value sent, and a delivery prints nothing.
C12_VerbosityZeroIsSilent ==
    \A i \in Ids :
        /\ sender_verbosity[i] = 0 => ConsoleWithin(i, PublishCalls)
        /\ receiver_verbosity[i] = 0
              => received_printed[i] = 0 /\ tracebacks[i] = 0

\* C12: at verbosity 0 the message line is never printed, neither by a send
\* nor by a delivery; the console of such a Sender shows nothing but the
\* warnings that do not depend on the verbosity (not activated, not a
\* string), its calls of publish and the error of such a call.
C12_VerbosityZeroPrintsNoMessage ==
    \A i \in Ids :
        /\ sender_verbosity[i] = 0
              => ConsoleWithin(i, {"not_activated", "not_a_string"}
                                      \cup PublishCalls)
        /\ receiver_verbosity[i] = 0 => received_printed[i] = 0

\* C12's case: a Sender of verbosity 0 has published a string after
\* activate, and a Receiver of verbosity 0 has had a message delivered.
C12_Witness ==
    \E i \in Ids, j \in Ids :
        /\ sender_verbosity[i] = 0
        /\ console[i] = <<"publish">>
        /\ receiver_verbosity[j] = 0
        /\ Len(handled[j]) >= 1
        /\ received_printed[j] = 0

\* ------------------------------------------------ C13, C14, C20: topics

\* The largest number_of_computers a Sender is constructed with.
MaxCount == 3

\* The unique_id strings given to activate: plain, with a "-", with a "/".
SessionIds == {<<"s">>, <<"a", "-", "1">>, <<"a", "/", "b">>}

\* Two of the N computers of a session S are running, each with a Receiver
\* around a conforming controller; each was given S, N and its own number.
TopicInit ==
    /\ Idle
    /\ broker = [i \in Ids |-> DefaultBroker]
    /\ \E S \in SessionIds, N \in 2..MaxCount :
          /\ session_id = [i \in Ids |-> S]
          /\ number_of_computers = [i \in Ids |-> N]
          /\ who_am_i \in [Ids -> 1..N]
    /\ \A i \in Ids, j \in Ids : i # j => who_am_i[i] # who_am_i[j]
    /\ sender_verbosity = [i \in Ids |-> DefaultVerbosity]
    /\ receiver_verbosity = [i \in Ids |-> DefaultVerbosity]
    /\ receiver = [i \in Ids |-> "Receiver"]
    /\ controller = [i \in Ids |-> ConformingController]
    /\ pc = [i \in Ids |-> StartsAt(receiver[i])]

\* The session on topics of any session id, count and numbering.
TopicSpec == TopicInit /\ [][SessionNext]_vars

\* The publish topic of computer i parses back to its number.
ParsesBack(topic, i) == ParseSenderId(topic) = [ok |-> TRUE, val |-> who_am_i[i]]

\* C13: whatever the session id (with "-" or "/" in it), the count N >= 2 and
\* the number in 1..N, the integer after the last "-" of the publish topic
\* is the number of the computer: of the topic TalkerToBroker.__init__ built,
\* of every topic published on, and so the sender_id every handler is given
\* is the number of the computer that sent.
C13_TopicRoundTrip ==
    \A i \in Ids :
        /\ publisher_topic[i] # <<>> => ParsesBack(publisher_topic[i], i)
        /\ \A k \in 1..Len(published[i]) : ParsesBack(published[i][k].topic, i)
        /\ \A k \in 1..Len(handled[i]) :
              \E j \in Ids \ {i} :
                  /\ published[j] # <<>>
                  /\ handled[i][k].sender_id = who_am_i[j]

\* C13's case: in the session "a-1" computer number 3 has sent, and the
\* handler of another computer was called with sender_id 3.
C13_Witness ==
    \E i \in Ids, j \in Ids :
        /\ session_id[i] = <<"a", "-", "1">>
        /\ who_am_i[i] = 3
        /\ published[i] # <<>>
        /\ handled[j] # <<>>
        /\ handled[j][1].sender_id = 3

\* The topics S/computer-k of the computers k of 1..N other than i.
OtherTopics(S, i, N) == {Format(Prefix(S), k) : k \in (1..N) \ {i}}

\* C14: the subscriber_topics that TalkerToBroker.__init__ computes for
\* (S, i, N) are exactly the N-1 topics S/computer-k, k in 1..N, k # i: none
\* twice, and never the publish topic S/computer-i.
C14_SubscribeSetExcludesSelf ==
    \A i \in Ids :
        publisher_topic[i] # <<>>
           => LET topics == subscriber_topics[i]
              IN  /\ Len(topics) = number_of_computers[i] - 1
                  /\ Range(topics) = OtherTopics(session_id[i], who_am_i[i],
                                                 number_of_computers[i])
                  /\ \A p \in 1..Len(topics), q \in 1..Len(topics) :
                        p # q => topics[p] # topics[q]
                  /\ Format(Prefix(session_id[i]), who_am_i[i])
                        \notin Range(topics)

\* C14's case: computer number 2 of 3 has its TalkerToBroker, with the two
\* topics of computers 1 and 3, in a session whose id has a "/".
C14_Witness ==
    \E i \in Ids :
        /\ who_am_i[i] = 2
        /\ number_of_computers[i] = 3
        /\ session_id[i] = <<"a", "/", "b">>
        /\ Len(subscriber_topics[i]) = 2

\* C20: once on-connect has succeeded, the subscribe request that went out
\* names every subscriber topic and no other topic, each with quality of
\* service 0; a connection that was refused or not answered has sent none.
C20_SubscribeCoversSubscriberTopics ==
    \A i \in Ids :
        IF conn[i] \in {"subscribing", "subscribed"}
        THEN /\ {subscribe_request[i][k][1] :
                    k \in 1..Len(subscribe_request[i])}
                   = Range(subscriber_topics[i])
             /\ \A k \in 1..Len(subscribe_request[i]) :
                   subscribe_request[i][k][2] = 0
        ELSE subscribe_request[i] = <<>>

\* C20's case: a computer of a session of three has had its connection
\* accepted and has asked for its two topics; the broker has not answered.
C20_Witness ==
    \E i \in Ids :
        /\ conn[i] = "subscribing"
        /\ Len(subscribe_request[i]) = 2
        /\ number_of_computers[i] = 3

\* ------------------------------------------------ C15: session isolation

\* The unique_id strings of unrelated programs on one broker.
IsolationIds == {<<"s">>, <<"t">>, <<"+">>}

\* Two programs of different sessions on the same broker, each a computer of
\* a session of NumComputers; their numbers may coincide.
IsolationInit ==
    /\ Idle
    /\ broker = [i \in Ids |-> DefaultBroker]
    /\ session_id \in [Ids -> IsolationIds]
    /\ \A i \in Ids, j \in Ids : i # j => session_id[i] # session_id[j]
    /\ who_am_i \in [Ids -> 1..NumComputers]
    /\ number_of_computers = [i \in Ids |-> NumComputers]
    /\ sender_verbosity = [i \in Ids |-> DefaultVerbosity]
    /\ receiver_verbosity = [i \in Ids |-> DefaultVerbosity]
    /\ receiver = [i \in Ids |-> "Receiver"]
    /\ controller = [i \in Ids |-> ConformingController]
    /\ pc = [i \in Ids |-> StartsAt(receiver[i])]

\* Programs of different sessions sharing the broker.
IsolationSpec == IsolationInit /\ [][SessionNext]_vars

\* C15: a computer whose session id differs from that of every other
\* computer on the broker never has its handler called: no message of
\* another session is delivered to it.
C15_SessionIsolation ==
    \A j \in Ids :
        (\A i \in Ids \ {j} : session_id[i] # session_id[j])
           => handled[j] = <<>>

\* ------------------------------------------------ C16, C17: send_message

\* The lines print_message prints for a message a Sender sends.
MessageLines == {PrintMessage(v, None) : v \in Verbosities \ {0}}

\* C16 as stated: the publish comes first, the line for the message after it.
C16_PublishThenPrint ==
    \A i \in Ids : \A k \in 1..Len(console[i]) :
        console[i][k] \in MessageLines
           => k > 1 /\ console[i][k - 1] \in PublishCalls

\* C16: on an activated Sender, send_message first prints the
\* verbosity-gated line for the message and only then delegates to the
\* publish: a line is always followed at once by the publish of its message
\* (after the warning, if the message is no string), and with a verbosity
\* other than 0 every publish has its line before it.
C16_PrintThenPublish ==
    \A i \in Ids : \A k \in 1..Len(console[i]) :
        /\ console[i][k] \in MessageLines
              => /\ k < Len(console[i])
                 /\ \/ console[i][k + 1] \in PublishCalls
                    \/ /\ console[i][k + 1] = "not_a_string"
                       /\ k + 1 < Len(console[i])
                       /\ console[i][k + 2] \in PublishCalls
        /\ (console[i][k] \in PublishCalls /\ sender_verbosity[i] # 0)
              => /\ k > 1
                 /\ \/ console[i][k - 1] \in MessageLines
                    \/ /\ console[i][k - 1] = "not_a_string"
                       /\ k > 2
                       /\ console[i][k - 2] \in MessageLines

\* C16's case: a Sender of the default verbosity has sent one string after
\* activate.
C16_Witness ==
    \E i \in Ids :
        /\ sender_verbosity[i] = DefaultVerbosity
        /\ console[i] = <<PrintMessage(DefaultVerbosity, None), "publish">>

\* How many times x is in the sequence.
Occurrences(seq, x) == Cardinality({k \in 1..Len(seq) : seq[k] = x})

\* C17: a send_message call on an activated Sender calls publish with the
\* publisher topic and the value, string or not; for a value that is no
\* string the warning is printed first and the call is made all the same.
\* A number is published, and the other computers are sent the bytes of
\* str(value); a value that publish does not take makes it raise.
C17_NonStringWarnAndProceed ==
    [][\A i \in Ids :
          (send_calls'[i] = send_calls[i] + 1 /\ IsActivated(i))
             => /\ Len(published'[i]) = Len(published[i]) + 1
                /\ LastOf(published'[i]).topic = publisher_topic[i]
                /\ LET call == LastOf(published'[i])
                       m == call.message
                   IN  /\ Occurrences(console'[i], "not_a_string")
                            = Occurrences(console[i], "not_a_string")
                                 + (IF m.type = "str" THEN 0 ELSE 1)
                       /\ m.type \in {"str", "int"}
                             => /\ call.error = ""
                                /\ LastOf(console'[i]) = "publish"
                                /\ \A j \in Ids \ {i} :
                                      conn[j] = "subscribed"
                                         => inbox'[j] =
                                               Append(inbox[j],
                                                  [topic |-> publisher_topic[i],
                                                   payload |-> Encode(m.text)])
                       /\ m.type = "list"
                             => /\ call.error = "TypeError"
                                /\ LastOf(console'[i]) = "TypeError"
                                /\ inbox' = inbox
      ]_vars

\* C17's case: an activated Sender has sent the int 7, with the warning, and
\* the handler of the other computer was called with the text "7".
C17_Witness ==
    \E i \in Ids, j \in Ids :
        /\ published[i] # <<>>
        /\ published[i][1].message.type = "int"
        /\ Occurrences(console[i], "not_a_string") = 1
        /\ handled[j] # <<>>
        /\ handled[j][1].message = <<55>>

\* ------------------------------------------------ C18: handshake progress

\* The session with its threads scheduled and its broker answering: each
\* foreground thread keeps running, the broker answers every connect and
\* acknowledges every subscribe, and each loop thread runs the callbacks.
LiveSpec ==
    /\ Init
    /\ [][SessionNext]_vars
    /\ \A i \in Ids :
          /\ WF_vars(\E rc \in ReturnCodes : on_connect(i, rc))
          /\ WF_vars(on_subscribe(i))
          /\ WF_vars(WaitCheck(i))
          /\ WF_vars(WaitSleep(i))
          /\ WF_vars(ActivateSender(i))
          /\ WF_vars(ActivateReceiver(i))

\* C18: a foreground in the polling wait leaves it and runs activate to its
\* end (it returns; with receiver None it raises at line 43), unless the
\* broker refused the connect.
C18_HandshakeProgress ==
    \A i \in Ids :
        (pc[i] \in {"check", "sleep"})
           ~> (pc[i] \in {"done", "raised"} \/ conn[i] = "refused")

\* C18's case: the acknowledgement has arrived and set the flag while the
\* foreground was asleep in the wait.
C18_Witness ==
    \E i \in Ids :
        /\ pc[i] = "sleep"
        /\ has_two_way_connection_with_broker[i]

\* ------------------------------------------------ C19: the ready flag

\* C19: the ready flag changes only in a step of _on_subscribe, which runs
\* for the acknowledgement of a subscribe request that a successful
\* _on_connect has sent, and the change is from False to True: no send, no
\* inbound message, no failing handler, no lost connection and no repeated
\* _on_connect resets it.
C19_ReadyFlagOrder ==
    [][\A i \in Ids :
          has_two_way_connection_with_broker'[i]
                # has_two_way_connection_with_broker[i]
             => /\ has_two_way_connection_with_broker'[i]
                /\ conn[i] = "subscribing"
                /\ conn'[i] = "subscribed"
                /\ subscribe_request[i] = TopicTuples(subscriber_topics[i])
                /\ subscribe_request[i] # <<>>
      ]_vars

\* C19's case: the flag is set; since then the computer has sent, a handler
\* of its own has failed, the connection was lost and _on_connect has run a
\* second time.
C19_Witness ==
    \E i \in Ids :
        /\ has_two_way_connection_with_broker[i]
        /\ conn[i] = "subscribing"
        /\ published[i] # <<>>
        /\ tracebacks[i] >= 1

\* ------------------------------------------------ C21: the refused connect

\* C21: a connect that the broker refuses sends no subscribe request and
\* sets no flag: in the step of the refusal the flag keeps its value, after
\* it no request is out and nothing is subscribed, and from then on the
\* connection stays refused and the flag is not written again.
C21_RefusedConnectNeverReady ==
    /\ [](\A i \in Ids :
             conn[i] = "refused"
                => /\ subscribe_request[i] = <<>>
                   /\ subscriptions[i] = {}
                   /\ ~loop_alive[i])
    /\ [][\A i \in Ids :
             (conn[i] = "refused" \/ conn'[i] = "refused")
                => /\ conn'[i] = "refused"
                   /\ has_two_way_connection_with_broker'[i]
                         = has_two_way_connection_with_broker[i]
      ]_vars

\* C21's case: the first connect of a computer was refused; its foreground
\* is in the wait, the flag not set.
C21_Witness ==
    \E i \in Ids :
        /\ conn[i] = "refused"
        /\ pc[i] = "check"
        /\ ~has_two_way_connection_with_broker[i]
        /\ subscribe_request[i] = <<>>

\* ------------------------------------------------ C22: topic immutability

\* The values the program assigns to the attributes of its Sender.
Reassignments ==
    ({"who_am_i"} \X Ids)
    \cup ({"number_of_computers"} \X {NumComputers, NumComputers + 1})
    \cup ({"verbosity"} \X Verbosities)

ReassignNext ==
    \E i \in Ids, to \in Reassignments : reassign(i, to[1], to[2])

\* The session of programs that assign to the attributes of their Senders
\* after activate.
ReassignSpec == PairInit /\ [][SessionNext \/ ReassignNext]_vars

\* C22: once TalkerToBroker.__init__ has computed publisher_topic and
\* subscriber_topics, no later step changes them (no send, no callback, no
\* assignment to the Sender's who_am_i, number_of_computers or verbosity),
\* and every publish goes to that publisher_topic.
C22_TopicsImmutable ==
    /\ [][\A i \in Ids :
             publisher_topic[i] # <<>>
                => /\ publisher_topic'[i] = publisher_topic[i]
                   /\ subscriber_topics'[i] = subscriber_topics[i]
      ]_vars
    /\ [](\A i \in Ids : \A k \in 1..Len(published[i]) :
             published[i][k].topic = publisher_topic[i])

\* C22's case: the who_am_i of one Sender and the number_of_computers of
\* the other are no longer those the topics were computed from, and both
\* computers have sent and have had a message delivered since.
C22_Witness ==
    \E i \in Ids, j \in Ids :
        /\ publisher_topic[i] # <<>>
        /\ publisher_topic[i] # PublisherTopic(session_id[i], who_am_i[i])
        /\ publisher_topic[j] # <<>>
        /\ Len(subscriber_topics[j]) # number_of_computers[j] - 1
        /\ published[i] # <<>> /\ published[j] # <<>>
        /\ handled[i] # <<>> /\ handled[j] # <<>>

\* ------------------------------------------------ C23: sender-id decoding

\* Topics whose last field is no positive integer: "0", a letter, nothing.
StrayTopics ==
    {Prefix(unique_id) \o <<"-", "0">>,
     Prefix(unique_id) \o <<"-", "x">>,
     Prefix(unique_id) \o <<"-">>}

StrayNext ==
    \E i \in Ids, topic \in StrayTopics :
        stray_message(i, topic, Encode(<<104, 105>>))

\* The session on a transport that may hand over messages of any topic.
StraySpec == PairInit /\ [][SessionNext \/ StrayNext]_vars

\* C23: no message is handed to the Receiver with a sender id that is not a
\* positive integer: decoding the sender id of a topic whose last field is
\* not a positive integer (a letter, nothing, 0) fails.
C23_SenderIdIsPositive ==
    \A i \in Ids : \A k \in 1..Len(handled[i]) : handled[i][k].sender_id >= 1

\* ------------------------------------------------ C24: one publish per send

\* C24: every send_message call on an activated Sender makes exactly one
\* call of publish, with the own publisher topic and the value as given, and
\* what goes to the subscribed computers is the bytes of that value; no
\* other step publishes (nothing is retried, nothing sent before activate is
\* kept and published later), so the publishes are as many as the
\* send_message calls made after activate.
C24_OnePublishPerSend ==
    /\ [](\A i \in Ids :
             Len(published[i]) = send_calls[i] - not_activated[i])
    /\ [][\A i \in Ids :
             IF send_calls'[i] = send_calls[i] + 1 /\ IsActivated(i)
             THEN \E m \in Messages \cup NonStrings :
                     /\ Len(published'[i]) = Len(published[i]) + 1
                     /\ SubSeq(published'[i], 1, Len(published[i]))
                           = published[i]
                     /\ LastOf(published'[i]).topic = publisher_topic[i]
                     /\ LastOf(published'[i]).message = m
                     /\ \A j \in Ids \ {i} :
                           \/ inbox'[j] = inbox[j]
                           \/ inbox'[j] =
                                 Append(inbox[j],
                                        [topic |-> publisher_topic[i],
                                         payload |-> Encode(m.text)])
             ELSE published'[i] = published[i]
      ]_vars

\* C24's case: a computer has called send_message once before activate and
\* once after it, and has published once; the other computer has the one
\* event.
C24_Witness ==
    \E i \in Ids, j \in Ids :
        /\ send_calls[i] = 2
        /\ not_activated[i] = 1
        /\ Len(published[i]) = 1
        /\ Len(inbox[j]) = 1
        /\ inbox[j][1].topic = publisher_topic[i]

\* ------------------------------------------------ C25: the zombie's position

\* The positions some message has carried, and the zombie's start.
Carried == game.carried \cup {ZombieStart}

\* C25: nothing keeps the handler and the game loop apart: between the two
\* assignments of move_to the game loop can take its next step of draw, and
\* between the two reads of draw the loop thread can start a handler or
\* finish one.  What holds is only this: while no handler runs, the zombie
\* is where a message (or its start) put it, and the x and the y that draw
\* uses are each of some message; the pair that draw uses need not be of any
\* one message.
C25_CoordinatesFromMessages ==
    /\ game.handler = "move_to" => ENABLED (draw_read_x \/ draw_read_y)
    /\ (game.loop = "draw" /\ game.handler = "move_to") => ENABLED move_to_y
    /\ game.handler = "idle" => <<game.x, game.y>> \in Carried
    /\ game.drawn # <<>>
          => /\ \E p \in Carried : p[1] = game.drawn[1]
             /\ \E p \in Carried : p[2] = game.drawn[2]

\* C25's case: draw was given a position that no single message carried,
\* the x of one message with the y of another.
C25_Witness ==
    /\ game.drawn # <<>>
    /\ game.drawn \notin Carried
    /\ game.moves >= 2

----------------------------------------------------------------------------
\* Brokers that differ only in web_socket_port

\* Broker() and Broker(web_socket_port=8884).
Brokers == {DefaultBroker, [DefaultBroker EXCEPT !.web_socket_port = 8884]}

\* Each program passes one of these Brokers to activate.
BrokerInit ==
    /\ Idle
    /\ who_am_i = [i \in Ids |-> i]
    /\ number_of_computers = [i \in Ids |-> NumComputers]
    /\ session_id = [i \in Ids |-> unique_id]
    /\ sender_verbosity = [i \in Ids |-> DefaultVerbosity]
    /\ receiver_verbosity = [i \in Ids |-> DefaultVerbosity]
    /\ broker \in [Ids -> Brokers]
    /\ receiver = [i \in Ids |-> "Receiver"]
    /\ controller = [i \in Ids |-> ConformingController]
    /\ pc = [i \in Ids |-> StartsAt(receiver[i])]

BrokerSpec == BrokerInit /\ [][SessionNext]_vars

\* The computers that have called mqtt_client.connect.
HaveConnected == {i \in Ids : connect_request[i] # NoConnect}

\* C26: two activations whose Brokers have the same hostname and the same
\* tcp_port, whatever their web_socket_port, call mqtt_client.connect with
\* the same arguments.
C26_WebSocketPortUnused ==
    \A i, j \in HaveConnected :
        (/\ broker[i].hostname = broker[j].hostname
         /\ broker[i].tcp_port = broker[j].tcp_port)
        => connect_request[i] = connect_request[j]

----------------------------------------------------------------------------
\* Sends while activate runs

\* The programs that send from handlers and threads only, and not before
\* the main program has called activate.
ThreadNext ==
    \E i \in Ids :
        \/ NewReceiver(i)
        \/ TalkerInit(i)
        \/ WaitCheck(i)
        \/ WaitSleep(i)
        \/ ActivateSender(i)
        \/ ActivateReceiver(i)
        \/ \E message \in Messages : send_from_thread(i, message)
        \/ \E rc \in ReturnCodes : on_connect(i, rc)
        \/ on_subscribe(i)
        \/ on_message(i)

ThreadSpec == PairInit /\ [][ThreadNext]_vars

\* A call of Sender.send_message on computer i.
Sends(i) == send_calls'[i] = send_calls[i] + 1

\* C27: a Sender that has a TalkerToBroker has one whose ready flag is set,
\* mqtt_client.publish is not called before the flag is set, and a
\* send_message made while the flag is not set is dropped with the
\* diagnostic: nothing is published, nothing reaches the other computers.
C27_NoPublishBeforeReady ==
    /\ [](\A i \in Ids :
            /\ IsActivated(i) => has_two_way_connection_with_broker[i]
            /\ published[i] # <<>> => has_two_way_connection_with_broker[i])
    /\ [][\A i \in Ids :
            (Sends(i) /\ ~has_two_way_connection_with_broker[i])
            => /\ published' = published
               /\ inbox' = inbox
               /\ not_activated'[i] = not_activated[i] + 1]_vars

\* A send_message was made on a computer that is still in the handshake:
\* the subscribe request is out and not answered, activate is waiting.
C27_Witness ==
    \E i \in Ids :
        /\ pc[i] \in {"check", "sleep"}
        /\ conn[i] = "subscribing"
        /\ ~has_two_way_connection_with_broker[i]
        /\ not_activated[i] > 0
        /\ published[i] = <<>>

----------------------------------------------------------------------------
\* Events handled before line 43

\* C28: the handler is not called while Receiver._talker_to_broker is None,
\* at any verbosity.  An event that _on_message handles then, and that
\* reaches the try block, ends in the except clause: the traceback is
\* printed, nothing leaves the callback, the loop goes on, the event is
\* gone from the loop's input and nothing of it is kept for later.
C28_NoHandlerBeforeActivated ==
    [][\A i \in Ids :
        (Consumes(i) /\ receiver_talker[i] = None)
        => /\ ~CallsHandler(i)
           /\ handled' = handled
           /\ received_printed' = received_printed
           /\ inbox'[i] = Tail(inbox[i])
           /\ ~RaisesBeforeTry(Head(inbox[i]))
              => /\ tracebacks'[i] = tracebacks[i] + 1
                 /\ escaped' = escaped
                 /\ loop_alive' = loop_alive]_vars

\* A Receiver of verbosity 0 whose loop handled an event before line 43:
\* the traceback is printed, the handler was never called, the event is
\* gone.
C28_Witness ==
    \E i \in Ids :
        /\ receiver_verbosity[i] = 0
        /\ receiver_talker[i] = None
        /\ pc[i] \in {"check", "sleep", "line42", "line43"}
        /\ tracebacks[i] > 0
        /\ handled[i] = <<>>
        /\ inbox[i] = <<>>

====
